---------------------------- MODULE Spec2Model ----------------------------
(***************************************************************************)
(* ExcelFlow frontend (src/frontend/src/App.jsx): the App component's      *)
(* state (clientId, excelData, loading, error, socket, messages), its      *)
(* WebSocket effect, the snapshot fetch, the upload and chat handlers, and *)
(* ExcelViewer's column-name encoder getExcelColumnName.                   *)
(***************************************************************************)
EXTENDS Integers, Sequences, FiniteSets, TLC

(***************************************************************************)
(* Bounds of the model.                                                    *)
(***************************************************************************)
\* largest column index handed to getExcelColumnName
MaxIndex == 9999
\* chat messages the user sends in one run
MaxSends == 1

(***************************************************************************)
(* Program state.                                                          *)
(***************************************************************************)
VARIABLES
    \* ---- getExcelColumnName (one call) ----
    index,          \* the argument
    tempIndex,      \* let tempIndex
    columnName,     \* let columnName, a sequence of one-letter strings
    colPc,          \* "while" (at the loop test) or "return"
    \* ---- App (useState) ----
    clientId,       \* "null" or the session's client id
    excelData,      \* NullExcel or [data, metadata]
    loading,
    error,          \* "null" or the message shown
    socket,         \* 0 (null) or the WebSocket object, an index of sockets
    messages,       \* the chat transcript, a sequence of [role, content]
    \* ---- React ----
    mounted,        \* the component is mounted
    effectPending,  \* the [clientId] effect has yet to run for this render
    effectCleanup,  \* the ws the effect's cleanup closes, 0 if none
    selectedFile,   \* FileUpload's selectedFile is set
    \* ---- browser and network ----
    uploadReq,      \* the POST /upload of handleFileUpload
    sockets,        \* every WebSocket the App constructed: [cid, readyState]
    fetches,        \* every GET /excel/<id> of fetchExcelData: [cid, st, ver]
    sentFrames,     \* frames passed to socket.send
    wsInbox,        \* pushes in flight to the client, in order
    \* ---- server ----
    serverCid,      \* the session the server holds, "null" if none
    serverVer,      \* the session's sheet state, as its sequence number
    framesServed    \* frames the server has answered

colVars == <<index, tempIndex, columnName, colPc>>

appVars == <<clientId, excelData, loading, error, socket, messages, mounted,
             effectPending, effectCleanup, selectedFile, uploadReq, sockets,
             fetches, sentFrames, wsInbox, serverCid, serverVer, framesServed>>

vars == <<colVars, appVars>>

(***************************************************************************)
(* getExcelColumnName                                                      *)
(***************************************************************************)
Letters == <<"A", "B", "C", "D", "E", "F", "G", "H", "I", "J", "K", "L", "M",
             "N", "O", "P", "Q", "R", "S", "T", "U", "V", "W", "X", "Y", "Z">>

\* String.fromCharCode for the codes of the capital letters
fromCharCode(code) == Letters[code - 64]

\* mutant: the loop test written as tempIndex > 0
LoopTestStrict(t) == t > 0

\* while (tempIndex >= 0)
LoopTest(t) == t >= 0

\* tempIndex = Math.floor(tempIndex / 26) - 1
NextTempIndex(t) == (t \div 26) - 1

\* mutant: the letter appended instead of prepended
AppendLetter(t, name) == name \o <<fromCharCode(65 + (t % 26))>>

\* columnName = String.fromCharCode(65 + remainder) + columnName
PrependLetter(t, name) == <<fromCharCode(65 + (t % 26))>> \o name

\* the whole function, as the loop computes it
RECURSIVE ColumnLoop(_, _)
ColumnLoop(t, name) ==
    IF LoopTest(t) THEN ColumnLoop(NextTempIndex(t), PrependLetter(t, name))
                   ELSE name

getExcelColumnName(i) == ColumnLoop(i, <<>>)

\* one iteration of the loop body
ColumnLoopStep ==
    /\ colPc = "while"
    /\ LoopTest(tempIndex)
    /\ columnName' = PrependLetter(tempIndex, columnName)
    /\ tempIndex' = NextTempIndex(tempIndex)
    /\ UNCHANGED <<index, colPc, appVars>>

\* the loop test fails: return columnName
ColumnReturn ==
    /\ colPc = "while"
    /\ ~LoopTest(tempIndex)
    /\ colPc' = "return"
    /\ UNCHANGED <<index, tempIndex, columnName, appVars>>

NextCol == ColumnLoopStep \/ ColumnReturn

(***************************************************************************)
(* App: values                                                             *)
(***************************************************************************)
\* client ids the upload endpoint may hand out
ClientIds == {"c1", "c2"}

\* texts the user may type into the chat
Msgs == {"m1", "m2"}

\* useState(null) for excelData
NullExcel == [data |-> -1, metadata |-> -1]

\* the sheet the server holds at sequence number v, as GET /excel returns it
Snapshot(v) == [data |-> v, metadata |-> v]

ErrConnection == "Connection error. Please try again."
ErrLoad == "Failed to load Excel data. Please try again."
ErrUpload == "Failed to upload file. Please try again."
ErrLost == "Connection lost. Please refresh the page."

IdleUpload == [st |-> "idle", client_id |-> "null"]

\* the pushes the server sends over the socket
ExcelUpdateMsg(v) ==
    [type |-> "excel_update", data |-> v, metadata |-> v,
     response |-> "null", excel_modified |-> FALSE]

ChatReplyMsg(text, modified) ==
    [type |-> "chat", data |-> -1, metadata |-> -1,
     response |-> text, excel_modified |-> modified]

\* the state after the first render: every useState at its initial value,
\* the effect of the first render still to run
AppInit ==
    /\ clientId = "null"
    /\ excelData = NullExcel
    /\ loading = FALSE
    /\ error = "null"
    /\ socket = 0
    /\ messages = <<>>
    /\ mounted = TRUE
    /\ effectPending = TRUE
    /\ effectCleanup = 0
    /\ selectedFile = FALSE
    /\ uploadReq = IdleUpload
    /\ sockets = <<>>
    /\ fetches = <<>>
    /\ sentFrames = <<>>
    /\ wsInbox = <<>>
    /\ serverCid = "null"
    /\ serverVer = 0
    /\ framesServed = 0

\* a finished call of getExcelColumnName(0)
ColParked ==
    /\ index = 0
    /\ tempIndex = -1
    /\ columnName = <<"A">>
    /\ colPc = "return"

Init == AppInit /\ ColParked

\* React runs the effects of a render before it handles the next event
Settled == mounted /\ ~effectPending

(***************************************************************************)
(* App: the [clientId] effect and fetchExcelData                           *)
(***************************************************************************)
\* mutant: the effect without its early return
EffectAlwaysRuns(cid) == TRUE

\* if (!clientId) return;
EffectRuns(cid) == cid # "null"

\* ws.close() on a WebSocket object
CloseSocket(socks, s) ==
    IF s = 0 \/ socks[s].readyState \in {"CLOSING", "CLOSED"}
    THEN socks
    ELSE [socks EXCEPT ![s].readyState = "CLOSING"]

\* mutant: a cleanup that leaves the socket open
CleanupLeavesOpen(socks, s) == socks

\* return () => { if (ws) ws.close(); }
EffectCleanup(socks, s) == CloseSocket(socks, s)

\* fetchExcelData up to its await: the request goes out for the clientId
\* of the render that created the closure
IssueFetch(fs, cid) == Append(fs, [cid |-> cid, st |-> "pending", ver |-> 0])

\* useEffect(() => {...}, [clientId])
RunEffect ==
    /\ mounted
    /\ effectPending
    /\ effectPending' = FALSE
    /\ IF EffectRuns(clientId)
       THEN LET closed == EffectCleanup(sockets, effectCleanup)
                ws == Len(sockets) + 1
            IN  /\ sockets' = Append(closed,
                        [cid |-> clientId, readyState |-> "CONNECTING"])
                /\ socket' = ws
                /\ effectCleanup' = ws
                /\ fetches' = IssueFetch(fetches, clientId)
       ELSE /\ sockets' = EffectCleanup(sockets, effectCleanup)
            /\ effectCleanup' = 0
            /\ UNCHANGED <<socket, fetches>>
    /\ UNCHANGED <<colVars, clientId, excelData, loading, error, messages,
                   mounted, selectedFile, uploadReq, sentFrames, wsInbox,
                   serverCid, serverVer, framesServed>>

\* the component unmounts: the effect's cleanup runs
Unmount ==
    /\ Settled
    /\ mounted' = FALSE
    /\ sockets' = EffectCleanup(sockets, effectCleanup)
    /\ effectCleanup' = 0
    /\ UNCHANGED <<colVars, clientId, excelData, loading, error, socket,
                   messages, effectPending, selectedFile, uploadReq, fetches,
                   sentFrames, wsInbox, serverCid, serverVer, framesServed>>

\* fetchExcelData after its await, for request k; responses of different
\* requests arrive in any order
FetchResolve(k) ==
    /\ mounted
    /\ k \in 1 .. Len(fetches)
    /\ fetches[k].st \in {"ok", "notok"}
    /\ IF fetches[k].st = "ok"
       THEN /\ excelData' = Snapshot(fetches[k].ver)
            /\ fetches' = [fetches EXCEPT ![k].st = "applied"]
            /\ UNCHANGED error
       ELSE /\ error' = ErrLoad
            /\ fetches' = [fetches EXCEPT ![k].st = "failed"]
            /\ UNCHANGED excelData
    /\ UNCHANGED <<colVars, clientId, loading, socket, messages, mounted,
                   effectPending, effectCleanup, selectedFile, uploadReq,
                   sockets, sentFrames, wsInbox, serverCid, serverVer,
                   framesServed>>

(***************************************************************************)
(* App: ws.onmessage, ws.onerror, ws.onclose                               *)
(***************************************************************************)
\* data.type === 'excel_update'
IsExcelUpdate(data) == data.type = "excel_update"

\* mutant: a snapshot fetch after every chat reply
FetchAfterEveryReply(data) == TRUE

\* if (data.excel_modified)
FetchAfterReply(data) == data.excel_modified

\* mutant: the update handler also logs the push in the transcript
TranscriptAfterUpdateLogged(msgs, data) ==
    Append(msgs, [role |-> "assistant", content |-> data.response])

\* the excel_update branch calls no setMessages
TranscriptAfterUpdate(msgs, data) == msgs

\* ws.onmessage, on the socket the effect created; its fetchExcelData is
\* the closure of the render the effect ran in, whose clientId is the ws's
OnMessage ==
    /\ mounted
    /\ effectCleanup # 0
    /\ sockets[effectCleanup].readyState = "OPEN"
    /\ wsInbox # <<>>
    /\ LET data == Head(wsInbox)
       IN  /\ wsInbox' = Tail(wsInbox)
           /\ IF IsExcelUpdate(data)
              THEN /\ excelData' = [data |-> data.data,
                                    metadata |-> data.metadata]
                   /\ messages' = TranscriptAfterUpdate(messages, data)
                   /\ UNCHANGED fetches
              ELSE /\ messages' = Append(messages,
                        [role |-> "assistant", content |-> data.response])
                   /\ fetches' = IF FetchAfterReply(data)
                                 THEN IssueFetch(fetches,
                                        sockets[effectCleanup].cid)
                                 ELSE fetches
                   /\ UNCHANGED excelData
    /\ UNCHANGED <<colVars, clientId, loading, error, socket, mounted,
                   effectPending, effectCleanup, selectedFile, uploadReq,
                   sockets, sentFrames, serverCid, serverVer, framesServed>>

\* the connection is established: readyState becomes OPEN (ws.onopen logs)
SocketOpen(s) ==
    /\ s \in 1 .. Len(sockets)
    /\ sockets[s].readyState = "CONNECTING"
    /\ sockets' = [sockets EXCEPT ![s].readyState = "OPEN"]
    /\ UNCHANGED <<colVars, clientId, excelData, loading, error, socket,
                   messages, mounted, effectPending, effectCleanup,
                   selectedFile, uploadReq, fetches, sentFrames, wsInbox,
                   serverCid, serverVer, framesServed>>

\* the connection fails: ws.onerror sets the error, the socket is closed and
\* what was in flight on it is lost
SocketError(s) ==
    /\ s \in 1 .. Len(sockets)
    /\ sockets[s].readyState \in {"CONNECTING", "OPEN"}
    /\ sockets' = [sockets EXCEPT ![s].readyState = "CLOSED"]
    /\ error' = IF mounted THEN ErrConnection ELSE error
    /\ wsInbox' = <<>>
    /\ UNCHANGED <<colVars, clientId, excelData, loading, socket, messages,
                   mounted, effectPending, effectCleanup, selectedFile,
                   uploadReq, fetches, sentFrames, serverCid, serverVer,
                   framesServed>>

\* the closing handshake completes, or the server closes: ws.onclose logs
SocketClosed(s) ==
    /\ s \in 1 .. Len(sockets)
    /\ sockets[s].readyState \in {"OPEN", "CLOSING"}
    /\ sockets' = [sockets EXCEPT ![s].readyState = "CLOSED"]
    /\ wsInbox' = <<>>
    /\ UNCHANGED <<colVars, clientId, excelData, loading, error, socket,
                   messages, mounted, effectPending, effectCleanup,
                   selectedFile, uploadReq, fetches, sentFrames, serverCid,
                   serverVer, framesServed>>

(***************************************************************************)
(* FileUpload and handleFileUpload                                         *)
(***************************************************************************)
\* handleFileChange / handleDrop with a supported file
SelectFile ==
    /\ Settled
    /\ clientId = "null"
    /\ ~selectedFile
    /\ selectedFile' = TRUE
    /\ UNCHANGED <<colVars, clientId, excelData, loading, error, socket,
                   messages, mounted, effectPending, effectCleanup, uploadReq,
                   sockets, fetches, sentFrames, wsInbox, serverCid,
                   serverVer, framesServed>>

\* handleFileChange with an unsupported file: setSelectedFile(null)
SelectInvalidFile ==
    /\ Settled
    /\ clientId = "null"
    /\ selectedFile
    /\ selectedFile' = FALSE
    /\ UNCHANGED <<colVars, clientId, excelData, loading, error, socket,
                   messages, mounted, effectPending, effectCleanup, uploadReq,
                   sockets, fetches, sentFrames, wsInbox, serverCid,
                   serverVer, framesServed>>

\* <button disabled={!selectedFile || loading}> and handleUpload's test
UploadEnabled(file, busy) == file /\ ~busy

\* handleFileUpload up to its await fetch(...)
UploadStart ==
    /\ Settled
    /\ clientId = "null"
    /\ UploadEnabled(selectedFile, loading)
    /\ loading' = TRUE
    /\ error' = "null"
    /\ uploadReq' = [st |-> "sent", client_id |-> "null"]
    /\ UNCHANGED <<colVars, clientId, excelData, socket, messages, mounted,
                   effectPending, effectCleanup, selectedFile, sockets,
                   fetches, sentFrames, wsInbox, serverCid, serverVer,
                   framesServed>>

\* mutant: setLoading(false) at the end of the try block, not in finally
LoadingAfterUploadNoFinally(resp) == resp.st # "ok"

\* finally { setLoading(false); }
LoadingAfterUpload(resp) == FALSE

\* setClientId(data.client_id) is reached only past the response.ok test
ClientIdAfterUpload(resp, cid) ==
    IF resp.st = "ok" THEN resp.client_id ELSE cid

\* handleFileUpload after its await: try, catch and finally
UploadResolve ==
    /\ mounted
    /\ uploadReq.st \in {"ok", "notok", "neterr"}
    /\ clientId' = ClientIdAfterUpload(uploadReq, clientId)
    /\ error' = IF uploadReq.st = "ok" THEN error ELSE ErrUpload
    /\ loading' = LoadingAfterUpload(uploadReq)
    /\ effectPending' = (effectPending \/ clientId' # clientId)
    /\ uploadReq' = IdleUpload
    /\ UNCHANGED <<colVars, excelData, socket, messages, mounted,
                   effectCleanup, selectedFile, sockets, fetches, sentFrames,
                   wsInbox, serverCid, serverVer, framesServed>>

(***************************************************************************)
(* sendMessage                                                             *)
(***************************************************************************)
\* mutant: only the null test, not the readyState test
CanSendAnyState(sock, socks) == sock # 0

\* !(!socket || socket.readyState !== WebSocket.OPEN)
CanSend(sock, socks) == sock # 0 /\ socks[sock].readyState = "OPEN"

\* ChatInterface is rendered only when clientId is set
sendMessage(message) ==
    /\ Settled
    /\ clientId # "null"
    /\ IF ~CanSend(socket, sockets)
       THEN /\ error' = ErrLost
            /\ UNCHANGED <<messages, sentFrames>>
       ELSE /\ Len(sentFrames) < MaxSends
            /\ messages' = Append(messages,
                    [role |-> "user", content |-> message])
            /\ sentFrames' = Append(sentFrames, [message |-> message])
            /\ UNCHANGED error
    /\ UNCHANGED <<colVars, clientId, excelData, loading, socket, mounted,
                   effectPending, effectCleanup, selectedFile, uploadReq,
                   sockets, fetches, wsInbox, serverCid, serverVer,
                   framesServed>>

(***************************************************************************)
(* The server, as the client's requests meet it                            *)
(***************************************************************************)
\* POST /upload answered: a session is created and its id returned, or the
\* upload is refused, or the request fails on the way
UploadServe ==
    /\ uploadReq.st = "sent"
    /\ \/ \E c \in ClientIds :
            /\ uploadReq' = [st |-> "ok", client_id |-> c]
            /\ serverCid' = c
            /\ serverVer' = 0
       \/ /\ uploadReq' \in {[st |-> "notok", client_id |-> "null"],
                             [st |-> "neterr", client_id |-> "null"]}
          /\ UNCHANGED <<serverCid, serverVer>>
    /\ UNCHANGED <<colVars, clientId, excelData, loading, error, socket,
                   messages, mounted, effectPending, effectCleanup,
                   selectedFile, sockets, fetches, sentFrames, wsInbox,
                   framesServed>>

\* GET /excel/<id> answered: the current snapshot, or not ok for an id the
\* registry does not hold
FetchServe(k) ==
    /\ k \in 1 .. Len(fetches)
    /\ fetches[k].st = "pending"
    /\ fetches' = IF fetches[k].cid = serverCid /\ serverCid # "null"
                  THEN [fetches EXCEPT ![k].st = "ok", ![k].ver = serverVer]
                  ELSE [fetches EXCEPT ![k].st = "notok"]
    /\ UNCHANGED <<colVars, clientId, excelData, loading, error, socket,
                   messages, mounted, effectPending, effectCleanup,
                   selectedFile, uploadReq, sockets, sentFrames, wsInbox,
                   serverCid, serverVer, framesServed>>

\* one chat turn: the next frame is answered with a chat reply; a turn that
\* changes the sheet commits the change first and may push the new state
ChatTurn(modify, push) ==
    /\ framesServed < Len(sentFrames)
    /\ serverCid # "null"
    /\ socket # 0
    /\ sockets[socket].readyState = "OPEN"
    /\ framesServed' = framesServed + 1
    /\ IF modify
       THEN /\ serverVer' = serverVer + 1
            /\ wsInbox' = wsInbox
                   \o (IF push THEN <<ExcelUpdateMsg(serverVer')>> ELSE <<>>)
                   \o <<ChatReplyMsg("reply", TRUE)>>
       ELSE /\ ~push
            /\ serverVer' = serverVer
            /\ wsInbox' = Append(wsInbox, ChatReplyMsg("reply", FALSE))
    /\ UNCHANGED <<colVars, clientId, excelData, loading, error, socket,
                   messages, mounted, effectPending, effectCleanup,
                   selectedFile, uploadReq, sockets, fetches, sentFrames,
                   serverCid>>

\* the registry drops the session (close(sessionId))
SessionClose ==
    /\ serverCid # "null"
    /\ clientId # "null"
    /\ serverCid' = "null"
    /\ UNCHANGED <<colVars, clientId, excelData, loading, error, socket,
                   messages, mounted, effectPending, effectCleanup,
                   selectedFile, uploadReq, sockets, fetches, sentFrames,
                   wsInbox, serverVer, framesServed>>

Next ==
    \/ RunEffect
    \/ Unmount
    \/ \E k \in 1 .. Len(fetches) : FetchResolve(k)
    \/ OnMessage
    \/ \E s \in 1 .. Len(sockets) : SocketOpen(s)
    \/ \E s \in 1 .. Len(sockets) : SocketError(s)
    \/ \E s \in 1 .. Len(sockets) : SocketClosed(s)
    \/ SelectFile
    \/ SelectInvalidFile
    \/ UploadStart
    \/ UploadResolve
    \/ \E m \in Msgs : sendMessage(m)
    \/ UploadServe
    \/ \E k \in 1 .. Len(fetches) : FetchServe(k)
    \/ \E modify, push \in BOOLEAN : ChatTurn(modify, push)
    \/ SessionClose

Spec == Init /\ [][Next]_vars

\* a call of getExcelColumnName(index), after its two let statements
InitCol ==
    /\ index \in -1 .. MaxIndex
    /\ tempIndex = index
    /\ columnName = <<>>
    /\ colPc = "while"
    /\ AppInit

ColSpec == InitCol /\ [][NextCol]_vars

\* the call runs to completion once started
ColFairSpec == InitCol /\ [][NextCol]_vars /\ WF_vars(NextCol)

(***************************************************************************)
(* Reference bijective base-26 numeration, the yardstick of the column     *)
(* properties, by its definition: the names are the non-empty words over   *)
(* A..Z in length-then-alphabetical order.                                 *)
(***************************************************************************)
RECURSIVE Pow26(_)
Pow26(k) == IF k = 0 THEN 1 ELSE 26 * Pow26(k - 1)

\* number of names shorter than len letters
RECURSIVE ShorterNames(_)
ShorterNames(len) == IF len <= 1 THEN 0 ELSE ShorterNames(len - 1) + Pow26(len - 1)

RECURSIVE RefLength(_, _)
RefLength(i, len) == IF i < ShorterNames(len + 1) THEN len ELSE RefLength(i, len + 1)

\* the k-th letter (1-based) of the len-letter word of rank r among the
\* len-letter words
RefLetter(r, len, k) == Letters[((r \div Pow26(len - k)) % 26) + 1]

RefEncode(i) ==
    LET len == RefLength(i, 1)
        r == i - ShorterNames(len)
    IN  [k \in 1 .. len |-> RefLetter(r, len, k)]

LetterValue(ch) == CHOOSE v \in 1 .. 26 : Letters[v] = ch

\* the inverse decoder: Horner's rule over the digits 1..26, less one
RECURSIVE RefDecodeAcc(_, _)
RefDecodeAcc(name, acc) ==
    IF name = <<>> THEN acc - 1
    ELSE RefDecodeAcc(Tail(name), acc * 26 + LetterValue(Head(name)))

RefDecode(name) == RefDecodeAcc(name, 0)

Returned == colPc = "return"

\* C1: getExcelColumnName returns, for every index i >= 0, the non-empty
\* word over A..Z that the reference bijective base-26 encoder gives, the
\* empty string for index -1, and its loop terminates.
C1_EncodesBijectiveBase26 ==
    /\ [](Returned =>
            IF index >= 0
            THEN /\ columnName = RefEncode(index)
                 /\ Len(columnName) >= 1
                 /\ \A k \in 1 .. Len(columnName) :
                        \E v \in 1 .. 26 : columnName[k] = Letters[v]
            ELSE columnName = <<>>)
    /\ <>Returned

C1_Witness == Returned /\ index = 52 /\ columnName = <<"B", "A">>

\* C2: decoding the name returned for an index in [0, 10000) gives the
\* index back, so distinct indices get distinct names.
C2_RoundTrip ==
    (Returned /\ index >= 0) =>
        /\ RefDecode(columnName) = index
        /\ \A j \in {0, index - 1, index + 1, index - 26, index + 26,
                     index - 676, index + 676, 25, 26, 701, 702} :
               (j >= 0 /\ j # index) => getExcelColumnName(j) # columnName

C2_Witness == Returned /\ index = 9999 /\ Len(columnName) = 3

\* C7: the returned name's length never decreases as the index grows and
\* grows by at most one letter per step; indices 0..25 have one letter and
\* 26 is the first with two.
C7_LengthMonotone ==
    (Returned /\ index >= 0) =>
        /\ Len(getExcelColumnName(index + 1)) \in
               {Len(columnName), Len(columnName) + 1}
        /\ (index <= 25 => Len(columnName) = 1)
        /\ (index = 25 => columnName = <<"Z">>)
        /\ (index = 26 => columnName = <<"A", "A">>)
        /\ (index >= 26 => Len(columnName) >= 2)

C7_Witness == Returned /\ index = 25 /\ Len(getExcelColumnName(index + 1)) = 2

(***************************************************************************)
(* Properties of the App                                                   *)
(***************************************************************************)
\* the sheet state the client displays, as the server's sequence number
Displayed == excelData.data

\* C3: the displayed sheet state is never applied out of order: excelData
\* never changes from a newer server state to an older one.
C3_NeverRegresses == [][Displayed' >= Displayed]_vars

\* C4: every push is handled as exactly one of two kinds: an excel_update
\* replaces excelData by the message's data and metadata and leaves the
\* transcript alone; any other message appends one assistant entry, leaves
\* excelData alone and starts a snapshot fetch iff excel_modified is set.
C4_PushHandledAsOneKind ==
    [][OnMessage =>
        LET data == Head(wsInbox)
        IN  IF data.type = "excel_update"
            THEN /\ excelData' = [data |-> data.data,
                                  metadata |-> data.metadata]
                 /\ messages' = messages
                 /\ fetches' = fetches
            ELSE /\ messages' = Append(messages,
                        [role |-> "assistant", content |-> data.response])
                 /\ Len(messages') = Len(messages) + 1
                 /\ excelData' = excelData
                 /\ (data.excel_modified
                        => /\ Len(fetches') = Len(fetches) + 1
                           /\ SubSeq(fetches', 1, Len(fetches)) = fetches
                           /\ fetches'[Len(fetches')].st = "pending")
                 /\ (~data.excel_modified => fetches' = fetches)]_vars

C4_Witness ==
    /\ Displayed = 1
    /\ Len(fetches) = 2
    /\ fetches[1].st = "applied" /\ fetches[1].ver = 0
    /\ \E k \in 1 .. Len(messages) : messages[k].role = "assistant"

\* the effect of the render in which clientId became set runs
AttachStep == effectPending /\ ~effectPending' /\ clientId # "null"

\* a chat reply flagged excel_modified is handled
ModifiedReplyStep ==
    /\ OnMessage
    /\ Head(wsInbox).type # "excel_update"
    /\ Head(wsInbox).excel_modified

\* C5: one snapshot fetch is issued when clientId becomes set, for that
\* clientId; no other is issued except on a chat reply flagged
\* excel_modified; none is ever issued while clientId is null.
C5_SnapshotFetchedOnceAtAttach ==
    /\ [](/\ (clientId = "null" => fetches = <<>>)
          /\ \A k \in 1 .. Len(fetches) :
                fetches[k].cid = clientId /\ fetches[k].cid # "null"
          /\ (clientId # "null" /\ ~effectPending => Len(fetches) >= 1))
    /\ [][/\ (AttachStep => /\ fetches = <<>>
                            /\ Len(fetches') = 1
                            /\ fetches'[1].cid = clientId)
          /\ (fetches' # fetches /\ Len(fetches') # Len(fetches)
                => /\ Len(fetches') = Len(fetches) + 1
                   /\ (AttachStep \/ ModifiedReplyStep))]_vars

C5_Witness ==
    /\ clientId # "null"
    /\ Len(fetches) = 2
    /\ fetches[2].cid = clientId
    /\ fetches[2].st = "pending"

\* a snapshot fetch for the current clientId got a response that was not ok
LookupFailed ==
    \E k \in 1 .. Len(fetches) :
        fetches[k].st = "failed" /\ fetches[k].cid = clientId

\* C6: a failed session lookup is terminal: afterwards the client sends no
\* chat frame and issues no snapshot fetch for that clientId, and the upload
\* step is shown again (clientId is null).
C6_FailedLookupTerminal ==
    /\ [](LookupFailed /\ mounted => clientId = "null")
    /\ [][LookupFailed => sentFrames' = sentFrames
                          /\ Len(fetches') = Len(fetches)]_vars

SocketIsOpen == socket # 0 /\ sockets[socket].readyState = "OPEN"

\* C8: sendMessage sends nothing on a socket that is absent or not OPEN,
\* leaves the transcript alone and sets the connection-lost error; on an
\* OPEN socket it appends exactly one user entry with the message and sends
\* exactly one frame carrying it.
C8_SendOnlyWhenOpen ==
    [][/\ \A m \in Msgs :
            sendMessage(m) =>
                IF SocketIsOpen
                THEN /\ messages' = Append(messages,
                            [role |-> "user", content |-> m])
                     /\ sentFrames' = Append(sentFrames, [message |-> m])
                ELSE /\ sentFrames' = sentFrames
                     /\ messages' = messages
                     /\ error' = ErrLost
       /\ (sentFrames' # sentFrames => SocketIsOpen)]_vars

C8_Witness ==
    /\ Len(sentFrames) = 1
    /\ Len(messages) = 1
    /\ messages[1] = [role |-> "user", content |-> "m2"]
    /\ ~SocketIsOpen
    /\ error = ErrLost

UploadInFlight == uploadReq.st # "idle"

\* C9: loading is true from the start of an upload until it completes and
\* false afterwards, whatever the outcome; the start clears the error; a
\* failed request or a response that is not ok leaves clientId null and sets
\* the error; clientId is set only from an ok response, to its client_id.
C9_UploadOutcome ==
    /\ [](loading <=> UploadInFlight)
    /\ [][/\ (~UploadInFlight /\ UploadInFlight'
                => loading' /\ error' = "null" /\ clientId = "null")
          /\ (UploadInFlight /\ ~UploadInFlight'
                => /\ ~loading'
                   /\ (uploadReq.st # "ok"
                         => clientId' = "null" /\ error' = ErrUpload)
                   /\ (uploadReq.st = "ok"
                         => clientId' = uploadReq.client_id))
          /\ (clientId' # clientId
                => uploadReq.st = "ok" /\ clientId' = uploadReq.client_id)
       ]_vars

C9_Witness ==
    /\ error = ErrUpload
    /\ ~loading
    /\ ~UploadInFlight
    /\ clientId = "null"

NotClosed(s) == sockets[s].readyState \in {"CONNECTING", "OPEN"}

\* C10: no WebSocket is opened while clientId is null; once the effect has
\* run for a clientId exactly one WebSocket has been opened, for that
\* clientId; after unmount that socket has been closed; at any time at most
\* one socket the App opened has not been closed.
C10_SocketFollowsClientId ==
    /\ (clientId = "null" => sockets = <<>>)
    /\ \A s \in 1 .. Len(sockets) : sockets[s].cid = clientId
    /\ (clientId # "null" /\ ~effectPending
          => Len(sockets) = 1 /\ socket = 1)
    /\ (clientId # "null" /\ effectPending => sockets = <<>>)
    /\ Cardinality({s \in 1 .. Len(sockets) : NotClosed(s)}) <= 1
    /\ (~mounted => \A s \in 1 .. Len(sockets) : ~NotClosed(s))

C10_Witness ==
    /\ ~mounted
    /\ Len(sockets) = 1
    /\ sockets[1].cid = clientId
    /\ sockets[1].readyState = "CLOSING"

=============================================================================
